---- MODULE Spec2Model ----
(***************************************************************************)
(* EA-EGA codec: the encoder bmp2ega.c (pixel packing, find_run, per-row   *)
(* RLE token emission) and the decoder ega2bmp.c (header read, token       *)
(* expansion into a one-byte-per-pixel buffer), as state machines.         *)
(*                                                                         *)
(* Buffers are sequences (index 1 is the C index 0); pointers are 0-based  *)
(* integer offsets into their buffer.  Accesses outside a heap buffer are  *)
(* undefined behaviour: the access either goes through (a read yields an   *)
(* arbitrary byte, a write lands outside the buffer) or the process is     *)
(* killed (pc = "crashed").                                                *)
(***************************************************************************)
EXTENDS Integers, Sequences, FiniteSets, TLC

VARIABLES pc, bmp, orig, enc, obs, dec, flt

vars == <<pc, bmp, orig, enc, obs, dec, flt>>

-----------------------------------------------------------------------------
(* Bounds of the checked input space *)

MaxSmallW == 3      \* small images: packed row width 1..MaxSmallW ...
MaxHeight == 2      \* ... and 1..MaxHeight rows, every content over SmallVals
MaxMedW == 7        \* one-row images of every content up to this packed width
MaxTriW == 5        \* the same over the three byte values of TriVals
MaxStream == 3      \* decoder-only runs: token bytes after the header

-----------------------------------------------------------------------------
(* Integer types and bit operations of the C code *)

U8(n) == n % 256
U16(n) == n % 65536

HiNibble(tv) == (tv \div 16) % 16
LoNibble(tv) == tv % 16

\* px = *sp++; px <<= 4; px |= ((*sp++) & 0x0f);
PackByteMut(l, r) == U8(r * 16) + (l % 16)

PackByte(l, r) == U8(l * 16) + (r % 16)

\* *dst++ = (tv >> 4) & 0x0f; *dst++ = tv & 0x0f;   for each byte of bytes
Unpack(bytes) ==
    [i \in 1..(2 * Len(bytes)) |->
        IF i % 2 = 1 THEN HiNibble(bytes[(i + 1) \div 2])
                     ELSE LoNibble(bytes[i \div 2])]

\* the packing loop over the whole buffer, in place: byte k of the buffer
\* becomes the pack of pixels 2k and 2k+1, the upper half keeps its pixels;
\* oob is the byte read one past the end when the buffer length is odd
Pack(data, oob) ==
    [k \in 1..Len(data) |->
        IF 2 * k - 1 <= Len(data)
        THEN PackByte(data[2 * k - 1],
                      IF 2 * k <= Len(data) THEN data[2 * k] ELSE oob)
        ELSE data[k]]

\* the two header fields, written through an int16_t pointer (little-endian)
HeaderBytes(w, h) ==
    LET a == U16(w - 1)
        b == U16(h - 1)
    IN  <<a % 256, a \div 256, b % 256, b \div 256>>

\* width = *par; width++;   (int16_t read into a uint16_t, then incremented)
HeaderDim(lo, hi) == U16(lo + 256 * hi + 1)

-----------------------------------------------------------------------------
(* find_run *)

ValidRunMut(count) == 4 <= count

ValidRun(count) == 3 <= count

\* the body of the while loop at position pos; st.ret is set once the
\* function has returned from inside the loop
FindRunBody(data, base, st, pos) ==
    IF st.ret # <<>> THEN st
    ELSE LET cc == data[base + pos + 1] IN
         IF st.lc # cc
         THEN IF ValidRun(st.count)
              THEN [st EXCEPT !.ret = <<[len |-> st.count, rpos |-> st.lp]>>]
              ELSE [lc |-> cc, lp |-> pos, count |-> 1, ret |-> <<>>]
         ELSE [st EXCEPT !.count = st.count + 1]

\* the while loop for pos = lo .. hi (split in halves to keep the
\* evaluation shallow; the passes run in increasing order of pos, and the
\* state after the first half is computed once, as a bound value)
RECURSIVE FindRunLoop(_, _, _, _, _)
FindRunLoop(data, base, st, lo, hi) ==
    IF lo > hi THEN st
    ELSE IF lo = hi THEN FindRunBody(data, base, st, lo)
    ELSE LET mid == (lo + hi) \div 2 IN
         CHOOSE out \in
             { IF half.ret # <<>> THEN half
               ELSE FindRunLoop(data, base, half, mid + 1, hi) :
                   half \in {FindRunLoop(data, base, st, lo, mid)} } : TRUE

find_runMut(data, base, len) ==
    LET n == U8(len)
        st == FindRunLoop(data, base,
                          [lc |-> data[base + 1], lp |-> 0, count |-> 1,
                           ret |-> <<>>],
                          1, n - 1)
    IN  IF st.ret # <<>> THEN st.ret[1]
        ELSE IF ~ValidRun(st.count) THEN [len |-> 0, rpos |-> st.lp]
        ELSE [len |-> st.count, rpos |-> st.lp]

\* buf = data + base; the len parameter is a uint8_t
find_run(data, base, len) ==
    LET n == U8(len)
        st == FindRunLoop(data, base,
                          [lc |-> data[base + 1], lp |-> 0, count |-> 1,
                           ret |-> <<>>],
                          1, n - 1)
        pos == IF n > 1 THEN n ELSE 1
    IN  IF st.ret # <<>> THEN st.ret[1]
        ELSE IF ~ValidRun(st.count) THEN [len |-> 0, rpos |-> pos]
        ELSE [len |-> st.count, rpos |-> st.lp]

-----------------------------------------------------------------------------
(* token emission of the encoder *)

MaxCopy == 128
MaxRun == 130

CopyMoreMut(clen) == clen > MaxCopy - 1

CopyMore(clen) == clen > MaxCopy

RECURSIVE CopyTokens(_, _, _)
CopyTokens(data, s, clen) ==
    IF CopyMore(clen)
    THEN <<127>> \o SubSeq(data, s + 1, s + 128)
                 \o CopyTokens(data, s + 128, clen - 128)
    ELSE <<U8(clen - 1)>> \o SubSeq(data, s + 1, s + clen)

\* dst.data[dst.pos++] = (rlen - 3) + 0x80;
RunCodeMut(rlen) == U8((rlen - 1) + 128)

RunCode(rlen) == U8((rlen - 3) + 128)

RECURSIVE RunTokens(_, _)
RunTokens(v, rlen) ==
    IF rlen > MaxRun
    THEN <<U8(127 + 128), v>> \o RunTokens(v, rlen - 130)
    ELSE <<RunCode(rlen), v>>

-----------------------------------------------------------------------------
(* Input images: the buffer load_bmp hands to the encoder *)

SmallVals == {7, 201}
OobVals == {0, 165}

RECURSIVE Flatten(_)
Flatten(rows) ==
    IF rows = <<>> THEN <<>> ELSE Head(rows) \o Flatten(Tail(rows))

\* an image of packed rows, as load_bmp leaves it: one byte per pixel
ImageOf(rows) ==
    [w |-> 2 * Len(rows[1]), h |-> Len(rows), px |-> Unpack(Flatten(rows))]

SmallImages ==
    { ImageOf(rows) : rows \in UNION { [1..h -> [1..w -> SmallVals]] :
                                          w \in 1..MaxSmallW, h \in 1..MaxHeight } }

MedImages ==
    { ImageOf(<<row>>) : row \in UNION { [1..w -> SmallVals] : w \in 1..MaxMedW } }

TriVals == {5, 7, 9}
TriImages ==
    { ImageOf(<<row>>) : row \in UNION { [1..w -> TriVals] : w \in 1..MaxTriW } }

ExampleImages ==
    { ImageOf(<<row>>) : row \in { <<5, 5, 5, 7, 7, 9, 9, 9, 9>>, <<5, 5, 7, 7>> } }

\* long rows: one or two segments, each a run of one byte or an alternation
\* of two bytes (no run), of the lengths around the caps of the format
RunLens == {3, 130, 131, 132, 133, 255, 256, 300}
AltLens == {1, 2, 128, 129, 255, 256}
Other(v) == CHOOSE u \in SmallVals : u # v
Seg(kind, v, n) ==
    [i \in 1..n |-> IF kind = "run" \/ i % 2 = 1 THEN v ELSE Other(v)]
Segs(vals) ==
    { Seg("run", v, n) : v \in vals, n \in RunLens }
      \cup { Seg("alt", v, n) : v \in vals, n \in AltLens }
LongImages ==
    { ImageOf(<<row>>) :
        row \in Segs({7}) \cup { a \o b : a \in Segs({7}), b \in Segs(SmallVals) } }

\* two long rows of the same width, with and without a run past the cap
TallRows == { Seg("run", 7, 131), Seg("alt", 7, 131), Seg("run", 201, 131) }
TallImages == { ImageOf(<<a, b>>) : a \in TallRows, b \in TallRows }

\* images of odd pixel width, which load_bmp accepts (its odd pixel end test)
OddWidths == {1, 3}
OddPixels == {3, 12}
OddImages ==
    { [w |-> w, h |-> h, px |-> px] :
        w \in OddWidths, h \in 1..MaxHeight,
        px \in UNION { [1..n -> OddPixels] : n \in 1..(3 * MaxHeight) } }

\* every pair of pixel values
PairImages == { [w |-> 2, h |-> 1, px |-> <<l, r>>] : l \in 0..15, r \in 0..15 }

Images ==
    SmallImages \cup MedImages \cup TriImages \cup ExampleImages \cup LongImages
      \cup TallImages \cup { im \in OddImages : Len(im.px) = im.w * im.h }
      \cup PairImages

NoFault == [dstOverflow |-> FALSE, srcOverread |-> FALSE,
            imgOverflow |-> FALSE, rowOverrun |-> FALSE]
NoObs == [slice |-> 0, at |-> 0, rpos |-> 0, len |-> 0, lit |-> <<>>, rep |-> <<>>]
NoDec == [src |-> <<>>, pos |-> 0, width |-> 0, height |-> 0,
          img |-> <<>>, dst |-> 0, x |-> 0]

\* the encoder's state when load_bmp has returned
Init ==
    \E im \in Images :
        /\ pc = "hdr"
        /\ bmp = [image_width |-> im.w, image_height |-> im.h]
        /\ orig = im.px
        /\ enc = [width |-> U16(im.w), height |-> U16(im.h), img |-> im.px,
                  dstlen |-> 0, dst |-> <<>>, src |-> 0, x |-> 0, y |-> 0]
        /\ obs = NoObs
        /\ dec = NoDec
        /\ flt = NoFault

-----------------------------------------------------------------------------
(* bmp2ega: main *)

\* dst.len = width * height; the image size prefix; dst.pos = 4
EncHeader ==
    /\ pc = "hdr"
    /\ pc' = "pack"
    /\ enc' = [enc EXCEPT !.dstlen = enc.width * enc.height,
                          !.dst = HeaderBytes(enc.width, enc.height)]
    /\ flt' = [flt EXCEPT !.dstOverflow = (4 > enc.width * enc.height)]
    /\ UNCHANGED <<bmp, orig, obs, dec>>

\* pack the source pixels; width /= 2; src = &img.data[(height-1) * width]
PackPixels ==
    /\ pc = "pack"
    /\ pc' = "enc"
    /\ \E oob \in (IF Len(enc.img) % 2 = 1 THEN OobVals ELSE {0}) :
          enc' = [enc EXCEPT !.img = Pack(enc.img, oob),
                             !.width = enc.width \div 2,
                             !.src = (enc.height - 1) * (enc.width \div 2),
                             !.x = 0, !.y = 0]
    /\ UNCHANGED <<bmp, orig, obs, dec, flt>>

\* one pass of the inner loop: find_run (called once, r is its result),
\* the literal tokens, the repeat tokens
EncodeResult ==
    CHOOSE e \in
        { LET lit == IF r.rpos # 0 THEN CopyTokens(enc.img, enc.src, r.rpos)
                                   ELSE <<>>
              src1 == IF r.rpos # 0 THEN enc.src + r.rpos ELSE enc.src
              rep == IF r.len # 0 THEN RunTokens(enc.img[src1 + 1], r.len)
                                  ELSE <<>>
          IN  [r |-> r, lit |-> lit, rep |-> rep, src |-> src1 + r.len] :
              r \in {find_run(enc.img, enc.src, enc.width - enc.x)} } : TRUE

EncodeStep ==
    /\ pc = "enc"
    /\ enc.y < enc.height
    /\ enc.x < enc.width
    /\ \E e \in {EncodeResult} :
        /\ enc' = [enc EXCEPT !.dst = enc.dst \o e.lit \o e.rep,
                              !.src = e.src,
                              !.x = enc.x + e.r.rpos + e.r.len]
        /\ obs' = [slice |-> enc.width - enc.x, at |-> enc.src,
                   rpos |-> e.r.rpos, len |-> e.r.len,
                   lit |-> e.lit, rep |-> e.rep]
        /\ flt' = [flt EXCEPT !.dstOverflow =
                       flt.dstOverflow
                       \/ Len(enc.dst) + Len(e.lit) + Len(e.rep) > enc.dstlen]
    /\ UNCHANGED <<pc, bmp, orig, dec>>

\* src -= (2 * width); y++
EncRowEnd ==
    /\ pc = "enc"
    /\ enc.y < enc.height
    /\ enc.x >= enc.width
    /\ enc' = [enc EXCEPT !.src = enc.src - 2 * enc.width,
                          !.y = enc.y + 1, !.x = 0]
    /\ UNCHANGED <<pc, bmp, orig, obs, dec, flt>>

\* fwrite(dst.data, dst.pos, 1, fo): the file the decoder is later run on
EncWrite ==
    /\ pc = "enc"
    /\ enc.y >= enc.height
    /\ pc' = "dec_hdr"
    /\ dec' = [dec EXCEPT !.src = enc.dst]
    /\ UNCHANGED <<bmp, orig, enc, obs, flt>>

\* a store past the end of dst.data is undefined: the process may be killed
EncFault ==
    /\ \/ pc = "hdr" /\ 4 > enc.width * enc.height
       \/ /\ pc = "enc" /\ enc.y < enc.height /\ enc.x < enc.width
          /\ Len(enc.dst) + Len(EncodeResult.lit) + Len(EncodeResult.rep)
                > enc.dstlen
    /\ pc' = "crashed"
    /\ flt' = [flt EXCEPT !.dstOverflow = TRUE]
    /\ UNCHANGED <<bmp, orig, enc, obs, dec>>

-----------------------------------------------------------------------------
(* ega2bmp: main *)

\* src.data[p]; a read at or past src.len yields the arbitrary byte g
SrcByte(p, g) == IF p < Len(dec.src) THEN dec.src[p + 1] ELSE g

\* the header read, img.len = width * height, calloc, dst, x
DecHeader ==
    /\ pc = "dec_hdr"
    /\ pc' = "dec"
    /\ \E g \in (IF Len(dec.src) < 4 THEN OobVals ELSE {0}) :
         LET w == HeaderDim(SrcByte(0, g), SrcByte(1, g))
             h == HeaderDim(SrcByte(2, g), SrcByte(3, g))
         IN  /\ dec' = [dec EXCEPT !.width = w, !.height = h, !.pos = 4,
                                   !.img = [i \in 1..(w * h) |-> 0],
                                   !.dst = (h - 1) * w, !.x = 0]
             /\ flt' = [flt EXCEPT !.srcOverread = (Len(dec.src) < 4)]
    /\ UNCHANGED <<bmp, orig, enc, obs>>

\* one pass of the decode loop: the control byte, the token, the row wrap
DecodeResult(g) ==
    LET code == dec.src[dec.pos + 1]
        isRun == code >= 128
        tc == IF isRun THEN U8((code % 128) + 3) ELSE U8(code + 1)
        bytes == [i \in 1..tc |-> IF isRun THEN SrcByte(dec.pos + 1, g)
                                           ELSE SrcByte(dec.pos + i, g)]
        px == Unpack(bytes)
        pos1 == dec.pos + 1 + (IF isRun THEN 1 ELSE tc)
        x1 == dec.x + 2 * tc
        dst1 == dec.dst + 2 * tc
        wrap == x1 >= dec.width
    IN  [tc |-> tc,
         pos |-> pos1,
         img |-> [i \in 1..Len(dec.img) |->
                     IF dec.dst < i /\ i <= dst1 THEN px[i - dec.dst]
                                                 ELSE dec.img[i]],
         x |-> IF wrap THEN 0 ELSE x1,
         dst |-> IF wrap THEN dst1 - 2 * dec.width ELSE dst1,
         srcOverread |-> pos1 > Len(dec.src),
         imgOverflow |-> dec.dst < 0 \/ dst1 > Len(dec.img),
         rowOverrun |-> x1 > dec.width]

DecodeToken ==
    /\ pc = "dec"
    /\ dec.pos < Len(dec.src)
    /\ \E g \in (IF DecodeResult(0).srcOverread THEN OobVals ELSE {0}) :
         LET d == DecodeResult(g) IN
         /\ dec' = [dec EXCEPT !.pos = d.pos, !.img = d.img,
                               !.x = d.x, !.dst = d.dst]
         /\ flt' = [flt EXCEPT
                       !.srcOverread = flt.srcOverread \/ d.srcOverread,
                       !.imgOverflow = flt.imgOverflow \/ d.imgOverflow,
                       !.rowOverrun = flt.rowOverrun \/ d.rowOverrun]
    /\ UNCHANGED <<pc, bmp, orig, enc, obs>>

\* a load past src.data or a store outside img.data is undefined: the
\* process may be killed
DecFault ==
    /\ pc = "dec"
    /\ dec.pos < Len(dec.src)
    /\ DecodeResult(0).srcOverread \/ DecodeResult(0).imgOverflow
    /\ pc' = "crashed"
    /\ flt' = [flt EXCEPT
                  !.srcOverread = flt.srcOverread \/ DecodeResult(0).srcOverread,
                  !.imgOverflow = flt.imgOverflow \/ DecodeResult(0).imgOverflow]
    /\ UNCHANGED <<bmp, orig, enc, obs, dec>>

\* the stream is exhausted: save_bmp writes img out
DecSave ==
    /\ pc = "dec"
    /\ dec.pos >= Len(dec.src)
    /\ pc' = "done"
    /\ UNCHANGED <<bmp, orig, enc, obs, dec, flt>>

-----------------------------------------------------------------------------
(* encode an image with bmp2ega, then decode the file with ega2bmp *)

Next ==
    \/ EncHeader
    \/ PackPixels
    \/ EncodeStep
    \/ EncRowEnd
    \/ EncWrite
    \/ EncFault
    \/ DecHeader
    \/ DecodeToken
    \/ DecFault
    \/ DecSave

Spec == Init /\ [][Next]_vars

\* the steps of bmp2ega
EncNext ==
    \/ EncHeader
    \/ PackPixels
    \/ EncodeStep
    \/ EncRowEnd
    \/ EncWrite
    \/ EncFault

\* the same runs, with bmp2ega never stopping while it can take a step
SpecLive == Init /\ [][Next]_vars /\ WF_vars(EncNext)

-----------------------------------------------------------------------------
(* ega2bmp run on an arbitrary file: a header and any token bytes *)

TokBytes == {0, 1, 3, 60, 128, 129}
DecWidths == {2, 4, 6}
DecHeights == {1, 2}
NoEnc == [width |-> 0, height |-> 0, img |-> <<>>, dstlen |-> 0,
          dst |-> <<>>, src |-> 0, x |-> 0, y |-> 0]

InitDec ==
    \E w \in DecWidths, h \in DecHeights :
      \E body \in UNION { [1..n -> TokBytes] : n \in 0..MaxStream } :
        /\ pc = "dec_hdr"
        /\ bmp = [image_width |-> w, image_height |-> h]
        /\ orig = <<>>
        /\ enc = NoEnc
        /\ obs = NoObs
        /\ dec = [NoDec EXCEPT !.src = HeaderBytes(w, h) \o body]
        /\ flt = NoFault

NextDec ==
    \/ DecHeader
    \/ DecodeToken
    \/ DecFault
    \/ DecSave

SpecDec == InitDec /\ [][NextDec]_vars

-----------------------------------------------------------------------------
(* the image dimensions alone: load_bmp, the header write, the header read *)

\* one dimension takes the values around the 16-bit limits, the other stays
\* small, so that width * height is an int
DimVals == {1, 2, 200, 320, 32767, 32768, 32769, 65535, 65536}
LowDims == {1, 2, 200, 320}

InitHdr ==
    \E w \in DimVals, h \in DimVals :
        /\ w \in LowDims \/ h \in LowDims
        /\ pc = "load"
        /\ bmp = [image_width |-> w, image_height |-> h]
        /\ orig = <<>>
        /\ enc = NoEnc
        /\ obs = NoObs
        /\ dec = NoDec
        /\ flt = NoFault

\* uint16_t lw = bmp->bmi.image_width; ... *width = lw; *height = lh;
LoadDims ==
    /\ pc = "load"
    /\ pc' = "hdr"
    /\ enc' = [enc EXCEPT !.width = U16(bmp.image_width),
                          !.height = U16(bmp.image_height)]
    /\ UNCHANGED <<bmp, orig, obs, dec, flt>>

\* the decoder's header read on the encoder's header
HdrRead ==
    /\ pc = "pack"
    /\ pc' = "hdr_read"
    /\ dec' = [dec EXCEPT !.src = enc.dst,
                          !.width = HeaderDim(enc.dst[1], enc.dst[2]),
                          !.height = HeaderDim(enc.dst[3], enc.dst[4]),
                          !.pos = 4]
    /\ UNCHANGED <<bmp, orig, enc, obs, flt>>

NextHdr ==
    \/ LoadDims
    \/ EncHeader
    \/ HdrRead

SpecHdr == InitHdr /\ [][NextHdr]_vars

-----------------------------------------------------------------------------
(* Reading a token stream by the rule of the format *)

IsRepeat(code) == code >= 128
TokenLen(code) == IF IsRepeat(code) THEN (code % 128) + 3 ELSE code + 1
TokenSize(code) == IF IsRepeat(code) THEN 2 ELSE 1 + TokenLen(code)
CeilDiv(a, b) == (a + b - 1) \div b

\* the file body: the stream after the 4 header bytes
Body(file) == SubSeq(file, 5, Len(file))

\* the tokens of stream s from position p (0-based) on, while they are whole
RECURSIVE Tokens(_, _)
Tokens(s, p) ==
    IF p >= Len(s) \/ p + TokenSize(s[p + 1]) > Len(s) THEN <<>>
    ELSE <<[rep |-> IsRepeat(s[p + 1]), n |-> TokenLen(s[p + 1]),
            raw |-> SubSeq(s, p + 2, p + TokenSize(s[p + 1]))]>>
         \o Tokens(s, p + TokenSize(s[p + 1]))

\* every token from p on is whole and ends inside the row it starts in
\* (acc bytes of the current row of w bytes are decoded), and the stream
\* ends on a row boundary
RECURSIVE RowAligned(_, _, _, _)
RowAligned(s, p, acc, w) ==
    IF p >= Len(s) THEN acc = 0
    ELSE /\ p + TokenSize(s[p + 1]) <= Len(s)
         /\ acc + TokenLen(s[p + 1]) <= w
         /\ RowAligned(s, p + TokenSize(s[p + 1]),
                       (acc + TokenLen(s[p + 1])) % w, w)

\* some token of s from p on needs more bytes than the stream holds
RECURSIVE Truncated(_, _)
Truncated(s, p) ==
    /\ p < Len(s)
    /\ \/ p + TokenSize(s[p + 1]) > Len(s)
       \/ Truncated(s, p + TokenSize(s[p + 1]))

-----------------------------------------------------------------------------
(* C1 *)

TokensStayInRow ==
    pc = "dec_hdr" => RowAligned(dec.src, 4, 0, enc.width)

(* C3 *)

\* the byte of the run the last pass of the encode loop found
RunValue == enc.img[obs.at + obs.rpos + 1]

\* C3: a run of L >= 3 handed to the encoder is emitted as ceil(L/130)
\* repeat tokens, each with the high bit set, all but the last with control
\* byte 127+0x80 and the last with remainder-3+0x80, lengths summing to L.
RepeatCapSplit ==
    obs.len >= 3 =>
        LET n == CeilDiv(obs.len, 130) IN
        /\ Len(obs.rep) = 2 * n
        /\ \A i \in 1..n :
              /\ IsRepeat(obs.rep[2 * i - 1])
              /\ TokenLen(obs.rep[2 * i - 1]) \in 3..130
              /\ obs.rep[2 * i - 1] =
                    (IF i < n THEN 127 + 128
                     ELSE (obs.len - 130 * (n - 1)) - 3 + 128)
              /\ obs.rep[2 * i] = RunValue

(* C4 *)

\* C4: a literal span of rpos >= 1 bytes is emitted as ceil(rpos/128) literal
\* tokens: control byte 127 and 128 raw bytes for each but the last, control
\* byte remainder-1 and the remainder raw bytes for the last, the raw bytes
\* being the source bytes in order.
LiteralCapSplit ==
    obs.rpos >= 1 =>
        LET n == CeilDiv(obs.rpos, 128) IN
        /\ Len(obs.lit) = obs.rpos + n
        /\ \A i \in 1..n :
              obs.lit[129 * (i - 1) + 1] =
                 (IF i < n THEN 127 ELSE (obs.rpos - 128 * (n - 1)) - 1)
        /\ (obs.rpos - 128 * (n - 1)) \in 1..128
        /\ \A j \in 1..obs.rpos :
              obs.lit[j + ((j - 1) \div 128) + 1] = enc.img[obs.at + j]

\* a literal span that needs two tokens has been emitted
LiteralSplitSeen == obs.rpos > 128 /\ Len(obs.lit) = obs.rpos + 2

(* C5, C6 *)

\* the slice of n bytes the last find_run call was about
SliceByte(k) == enc.img[obs.at + k]

\* offsets (0-based) in a slice of n bytes where a streak of >= 3 equal bytes
\* begins
StreakStarts(n) ==
    { a \in 0..(n - 3) :
        /\ SliceByte(a + 1) = SliceByte(a + 2)
        /\ SliceByte(a + 2) = SliceByte(a + 3)
        /\ (a = 0 \/ SliceByte(a) # SliceByte(a + 1)) }

\* the result (obs.len, obs.rpos) is the leftmost streak of >= 3 equal bytes
\* of the slice of n bytes, in its full length, or (0, n) when there is none
FindRunContract(n) ==
    IF StreakStarts(n) = {}
    THEN obs.len = 0 /\ obs.rpos = n
    ELSE /\ obs.rpos \in StreakStarts(n)
         /\ \A a \in StreakStarts(n) : obs.rpos <= a
         /\ obs.len >= 3
         /\ obs.rpos + obs.len <= n
         /\ \A k \in 1..obs.len : SliceByte(obs.rpos + k) = SliceByte(obs.rpos + 1)
         /\ \/ obs.rpos + obs.len = n
            \/ SliceByte(obs.rpos + obs.len + 1) # SliceByte(obs.rpos + 1)

\* C5: on a slice of 1..255 bytes find_run returns the offset and the full
\* length of the leftmost streak of >= 3 identical bytes, or length 0 and
\* offset n when the slice has none.
FindRunLeftmost ==
    (obs.slice >= 1 /\ obs.slice <= 255) => FindRunContract(obs.slice)

\* find_run has returned a run that starts after some literal bytes and is
\* ended by a differing byte inside the slice
FindRunInnerRun ==
    /\ obs.slice >= 1 /\ obs.slice <= 255
    /\ obs.rpos >= 1 /\ obs.len >= 3
    /\ obs.rpos + obs.len < obs.slice

\* C6: the slice find_run examines is the whole remaining suffix of the row,
\* whatever its length, and the run length it returns is the full length of
\* the first run of that suffix.
FindRunWholeSuffix ==
    obs.slice >= 1 => FindRunContract(obs.slice)

(* C7 *)

RowA == <<5, 5, 5, 7, 7, 9, 9, 9, 9>>
RowB == <<5, 5, 7, 7>>
Encoded(row) == pc = "dec_hdr" /\ orig = Unpack(row)

\* C7 as stated: of row [5,5,5,7,7,9,9,9,9] only 9,9,9,9 becomes a repeat
\* token, every other byte is in a literal token; row [5,5,7,7] is the one
\* literal token 3,5,5,7,7.
RunThresholdAsStated ==
    /\ Encoded(RowA) =>
          LET t == Tokens(Body(dec.src), 0) IN
          /\ \E i \in 1..Len(t) : t[i] = [rep |-> TRUE, n |-> 4, raw |-> <<9>>]
          /\ \A i \in 1..Len(t) : t[i].rep => t[i].raw = <<9>>
    /\ Encoded(RowB) => Body(dec.src) = <<3, 5, 5, 7, 7>>

\* C7 amended: row [5,5,5,7,7,9,9,9,9] is encoded as the repeat token of
\* 5,5,5, the literal token of 7,7 and the repeat token of 9,9,9,9; row
\* [5,5,7,7] is the one literal token 3,5,5,7,7.
RunThreshold ==
    /\ Encoded(RowA) => Body(dec.src) = <<128, 5, 1, 7, 7, 129, 9>>
    /\ Encoded(RowB) => Body(dec.src) = <<3, 5, 5, 7, 7>>

\* the file of row [5,5,5,7,7,9,9,9,9] has been written
RunThresholdSeen == Encoded(RowA) /\ Len(dec.src) = 11

(* C8 *)

\* C8: for true dimensions in 1..65536 the header holds dimension-1 in each
\* 16-bit field and the decoder reads back the true width and height.
HeaderBias ==
    pc = "hdr_read" =>
        /\ dec.src[1] + 256 * dec.src[2] = bmp.image_width - 1
        /\ dec.src[3] + 256 * dec.src[4] = bmp.image_height - 1
        /\ dec.width = bmp.image_width
        /\ dec.height = bmp.image_height

(* C9 *)

\* C9: a stream that ends inside a token is refused: the decoder never reads
\* at or past the end of the stream and never goes on to write the image.
TruncatedRefused ==
    /\ ~flt.srcOverread
    /\ pc = "done" => ~Truncated(dec.src, 4)

(* C10 *)

\* C10: a token longer than what is left of its row is refused: no pixel is
\* written outside the row being decoded, none outside the image buffer.
RowOverrunRefused ==
    /\ ~flt.rowOverrun
    /\ ~flt.imgOverflow

(* C11 *)

EvenWidth == bmp.image_width % 2 = 0

\* the packed bytes the encoder treats as buffer row r (0-based)
PackedRow(r) == SubSeq(enc.img, r * enc.width + 1, (r + 1) * enc.width)

\* the tokens of one packed row encoded on its own, from cursor x on
RECURSIVE RowTokens(_, _)
RowTokens(row, x) ==
    IF x >= Len(row) THEN <<>>
    ELSE LET r == find_run(row, x, Len(row) - x)
             lit == IF r.rpos # 0 THEN CopyTokens(row, x, r.rpos) ELSE <<>>
             rep == IF r.len # 0
                    THEN RunTokens(row[x + r.rpos + 1], r.len) ELSE <<>>
         IN  lit \o rep \o RowTokens(row, x + r.rpos + r.len)

\* the encodings of buffer rows r, r-1, ..., 0, one after the other
RECURSIVE RowsFrom(_)
RowsFrom(r) ==
    IF r < 0 THEN <<>> ELSE RowTokens(PackedRow(r), 0) \o RowsFrom(r - 1)

\* the file is the rows encoded one by one, the last buffer row first
StreamIsRowsBottomUp ==
    (pc = "dec_hdr" /\ EvenWidth) =>
        Body(dec.src) = RowsFrom(enc.height - 1)

\* the decoder has put every scanline in the buffer row it was taken from
RowsPlacedBack ==
    (pc = "done" /\ EvenWidth) =>
        \A r \in 0..(enc.height - 1) :
            SubSeq(dec.img, r * dec.width + 1, (r + 1) * dec.width)
                = Unpack(PackedRow(r))

\* C11: for an image of even width the token stream is the concatenation of
\* the independent encodings of the scanlines, last buffer row first, and the
\* decoder places each scanline in the buffer row the encoder took it from.
RowOrderAndIndependence ==
    /\ StreamIsRowsBottomUp
    /\ RowsPlacedBack

(* C12 *)

\* the scanline (0-based buffer row) of pixel i (1-based) of the image
RowOfPixel(i) == (i - 1) \div bmp.image_width

\* C12: for every width, odd ones included, no packed byte holds pixels of
\* two different rows, and the packed row the encoder takes for scanline r
\* holds exactly the pixels of scanline r.
PackerKeepsRows ==
    pc = "enc" =>
        /\ \A j \in 1..(Len(orig) \div 2) :
              RowOfPixel(2 * j - 1) = RowOfPixel(2 * j)
        /\ 2 * enc.width >= bmp.image_width
        /\ \A r \in 0..(enc.height - 1) : \A k \in 1..enc.width :
              PackedRow(r)[k] =
                 PackByte(orig[r * bmp.image_width + 2 * k - 1],
                          orig[r * bmp.image_width + 2 * k])

(* C13 *)

\* C13: unpacking the packed bytes of an even-length pixel sequence gives
\* the sequence back, the leftmost pixel of each pair in the high nibble.
PackUnpackRoundTrip ==
    (pc = "enc" /\ Len(orig) % 2 = 0) =>
        /\ Unpack(SubSeq(enc.img, 1, Len(orig) \div 2)) = orig
        /\ \A k \in 1..(Len(orig) \div 2) :
              enc.img[k] \div 16 = orig[2 * k - 1]

\* the pixel pair 15, 9 has been packed into the byte 0xF9
PackedPairSeen == pc = "enc" /\ orig = <<15, 9>> /\ enc.img[1] = 249

(* C14 *)

\* C14: for an image of even width the encoder's write position never
\* exceeds the width x height bytes allocated for the output.
DstWithinBuffer ==
    (EvenWidth /\ pc # "hdr") => Len(enc.dst) <= enc.dstlen

(* C15 *)

\* a pass of the encode loop advances the row cursor and the source pointer
\* by rpos + len, which is at least 1 and at most what is left of the row;
\* a row ends with the cursor on the packed width and one row consumed
ProgressStep ==
    /\ (pc = "enc" /\ pc' = "enc" /\ enc'.y = enc.y) =>
          /\ obs'.rpos + obs'.len >= 1
          /\ obs'.rpos + obs'.len <= enc.width - enc.x
          /\ enc'.x = enc.x + obs'.rpos + obs'.len
          /\ enc'.src = enc.src + obs'.rpos + obs'.len
    /\ (pc = "enc" /\ enc'.y = enc.y + 1) =>
          /\ enc.x = enc.width
          /\ enc.src = (enc.height - enc.y) * enc.width

\* the encoder has left its loops
EncoderStopped == pc \notin {"hdr", "pack", "enc"}

\* C15: every pass of the per-row loop makes progress within the row, the
\* cursor ends exactly on the packed width with one row consumed, and the
\* encoding of the image terminates, for every packed row width.
EncoderProgress ==
    /\ [][ProgressStep]_vars
    /\ <>EncoderStopped

\* a row of 256 or more packed bytes has been encoded to its end
WideRowEncoded ==
    pc = "enc" /\ enc.width >= 256 /\ enc.x = enc.width /\ obs.slice >= 1

====
